---- MODULE Spec2Model ----
(***************************************************************************)
(* kube2sky (hack/images/dns/kube2sky/kube2sky.go): the bridge that lists  *)
(* and watches the Kubernetes services and writes one SkyDNS record per    *)
(* service into etcd.                                                      *)
(*                                                                         *)
(* Two tasks run: the consumer (main -> watchOnce -> mutateEtcdOrDie) and  *)
(* the producer goroutine (watchLoop -> sendUpdate), joined by the         *)
(* unbuffered channel `updates`.  The registry (the Kubernetes master) and *)
(* the store (etcd) are the environment.                                   *)
(*                                                                         *)
(* fd_move and fd_close of pkg/redirfd/redirfd.go are modelled at the end, *)
(* under a specification of their own (FdSpec).                            *)
(*                                                                         *)
(* Strings are sequences of tokens: "a.default." is <<"a",".","default",   *)
(* ".">>.  A resourceVersion string is the number it spells, "" is 0.      *)
(* Time is counted in units of the retry delay (50ms).                     *)
(***************************************************************************)
EXTENDS Integers, Sequences, FiniteSets, TLC

\* ---------------------------------------------------------------- bounds

\* The registry stops changing once its version reaches MaxVersion.
MaxVersion == 3

\* The value of the flag -etcd_mutation_timeout, in units of the retry delay.
etcd_mutation_timeout == 2

\* The retry delay of mutateEtcdOrDie (50ms), the unit of time.
delay == 1

\* ------------------------------------------------------------ value sets

\* The flag -domain, "kubernetes.local".
domain == <<"kubernetes", ".", "local">>

Names == {<<"a">>, <<"b">>}

Namespaces == {<<"default">>}

\* The order in which List() returns the services.
ListOrder == <<  <<  <<"a">>, <<"default">>  >>,  <<  <<"b">>, <<"default">>  >>  >>

Ids == {ListOrder[i] : i \in 1..Len(ListOrder)}

\* Spec.PortalIP and Spec.Port of a service: two addressed ones and the two
\* headless spellings ("None" is kapi.PortalIPNone).
ServiceSpecs ==
  { [PortalIP |-> "10.0.0.5", Port |-> 80],
    [PortalIP |-> "10.0.0.6", Port |-> 8080],
    [PortalIP |-> "None", Port |-> 80],
    [PortalIP |-> "", Port |-> 80] }

\* The specs a service takes: the first service of the listing takes every
\* one, the others keep one address.
SpecsOf(id) ==
  IF id = ListOrder[1] THEN ServiceSpecs ELSE {[PortalIP |-> "10.0.0.6", Port |-> 8080]}

\* A kapi.Service.
Service(id, spec, rv) ==
  [kind |-> "Service", Name |-> id[1], Namespace |-> id[2],
   PortalIP |-> spec.PortalIP, Port |-> spec.Port, ResourceVersion |-> rv]

\* A kapi.Status, and an object that is neither a Status nor a Service.
StatusObject == [kind |-> "Status"]

OtherObject == [kind |-> "Other"]

\* serviceUpdate: Op is one of the operation constants, Services a sequence.
serviceUpdate(op, services) == [Op |-> op, Services |-> services]

\* No update: the zero value of the variables that hold one.
NoUpdate == [Op |-> -1, Services |-> <<>>]

\* A kwatch.Event, and its zero value.
Event(type, object) == [Type |-> type, Object |-> object]

NoEvent == Event("", [kind |-> "nil"])

Min(a, b) == IF a <= b THEN a ELSE b

VARIABLES
  \* the registry (Kubernetes master)
  regVer,          \* its current resourceVersion
  registry,        \* id -> Service, for the services that exist
  regLog,          \* the change events so far, oldest first
  \* the producer goroutine (watchLoop)
  ppc,             \* where watchLoop stands
  resourceVersion, \* *resourceVersion, the resumption token (0 is "")
  sending,         \* the serviceUpdate a blocked send holds
  wpos,            \* index in regLog of the next event of the open watch
  watcherOpen,     \* a watcher is established and not stopped
  closes,          \* how many times the current channel was closed
  event,           \* the event the select of watchLoop received last
  \* the consumer (main, watchOnce, mutateEtcdOrDie)
  cpc,             \* where the consumer stands
  ev,              \* the update event being handled
  idx,             \* index i of the loop over ev.Services
  elapsed,         \* time since mutateEtcdOrDie armed its timer
  attempts,        \* invocations of mutator() in the current call
  failures,        \* those that returned an error
  storeCalls,      \* calls to the etcd client in the current call
  applied,         \* those that changed the store
  store,           \* etcd: record name -> value
  exit,            \* "" while the process runs, else the function whose log.Fatalf ended it
  lastErr,         \* the error of the last attempt of the current call, "" for none
  \* what happened in the current session
  listCalls,       \* calls of List()
  watchCalls,      \* calls of Watch()
  listedVersion,   \* the version List() returned, 0 before
  watchArg,        \* the version Watch() was given, 0 before
  observed,        \* what the producer took from the registry, in order
  received,        \* the updates the consumer received, in order
  mutLog,          \* the mutateEtcdOrDie calls begun, in order
  lastApplied,     \* <<name, namespace>> -> Op of the last event applied for it
  \* package redirfd: one call of fd_move
  fpc,             \* where the call stands: "none", "call", "dup2", "close", "done"
  to,              \* the argument to
  from,            \* the argument from
  fdTable,         \* the process's descriptors: fd -> open file, NoFile when closed
  fd_move_err,     \* fd_move's named result err ("" is nil)
  ret,             \* what fd_move returned ("" is nil)
  dupCalls,        \* dup2 system calls made by the call
  dupErr,          \* the errno of the last dup2 ("" is 0)
  closeCalls,      \* close system calls made by the call
  closeErr,        \* the errno of the last close ("" is 0)
  fd_close_i       \* fd_close's counter i

regVars == <<regVer, registry, regLog>>
prodVars == <<ppc, resourceVersion, sending, wpos, watcherOpen, closes, event>>
mutVars == <<elapsed, attempts, failures, storeCalls, applied, lastErr>>
consVars == <<cpc, ev, idx, store>>
histVars == <<listCalls, watchCalls, listedVersion, watchArg, observed, received, mutLog,
             lastApplied>>
kubeVars == <<regVars, prodVars, mutVars, consVars, exit, histVars>>
fdVars == <<fpc, to, from, fdTable, fd_move_err, ret, dupCalls, dupErr, closeCalls,
           closeErr, fd_close_i>>
vars == <<kubeVars, fdVars>>

\* ------------------------------------------------------ pure definitions

\* The operation constants.
SetServices == 0

AddService == 1

RemoveService == 2

\* The kwatch event types.
Added == "ADDED"

Modified == "MODIFIED"

Deleted == "DELETED"

Error == "ERROR"

\* IsServiceIPSet that tests only for the empty PortalIP.
IsServiceIPSet_emptyOnly(service) == service.PortalIP # ""

\* kapi.IsServiceIPSet: PortalIP is neither "None" nor "".
IsServiceIPSet(service) ==
  service.PortalIP # "None" /\ service.PortalIP # ""

\* buildNameString without the trailing dot.
buildNameString_noTrailingDot(service, namespace, dom) ==
  service \o <<".">> \o namespace \o <<".">> \o dom

\* fmt.Sprintf("%s.%s.%s.", service, namespace, domain)
buildNameString(service, namespace, dom) ==
  service \o <<".">> \o namespace \o <<".">> \o dom \o <<".">>

\* The skymsg.Service that addDNS marshals.
skymsgService(service) ==
  [Host |-> service.PortalIP, Port |-> service.Port,
   Priority |-> 10, Weight |-> 10, Ttl |-> 30]

\* etcdClient.Set(key, value, 0): the call fails and changes nothing, or it
\* stores value under key.
etcdSet(key, value, st) ==
  { [err |-> "unavailable", store |-> st, calls |-> 1, applied |-> 0],
    [err |-> "", store |-> [k \in DOMAIN st \cup {key} |->
                              IF k = key THEN value ELSE st[k]],
     calls |-> 1, applied |-> 1] }

\* etcdClient.Delete(key, true): the call fails and changes nothing, or it
\* removes the key.  etcd answers the delete of a key it does not hold with
\* "Key not found" (errorCode 100), which the client returns as an error.
etcdDelete(key, st) ==
  { [err |-> "unavailable", store |-> st, calls |-> 1, applied |-> 0] }
  \cup
  IF key \in DOMAIN st
    THEN { [err |-> "", store |-> [k \in DOMAIN st \ {key} |-> st[k]],
            calls |-> 1, applied |-> 1] }
    ELSE { [err |-> "KeyNotFound", store |-> st, calls |-> 1, applied |-> 0] }

\* addDNS: the outcomes of one invocation ("" is a nil error).
addDNS(record, service, st) ==
  IF ~IsServiceIPSet(service)
    THEN { [err |-> "", store |-> st, calls |-> 0, applied |-> 0] }
    ELSE etcdSet(record, skymsgService(service), st)

\* removeDNS: the outcomes of one invocation.
removeDNS(record, st) == etcdDelete(record, st)

\* mutatorOf with the SetServices update handled by the RemoveService case.
mutatorOf_syncRemoves(op) ==
  IF op = AddService THEN "addDNS" ELSE "removeDNS"

\* mutatorOf with every event handled by the first case of the switch.
mutatorOf_alwaysAdd(op) == "addDNS"

\* The closure watchOnce hands to mutateEtcdOrDie for an event of type op.
mutatorOf(op) ==
  IF op \in {SetServices, AddService} THEN "addDNS" ELSE "removeDNS"

\* The outcomes of one invocation of the closure.
mutator(kind, record, service, st) ==
  IF kind = "addDNS" THEN addDNS(record, service, st) ELSE removeDNS(record, st)

\* The timer of mutateEtcdOrDie has fired: <-timeout is ready.
timeoutFired(t) == t >= etcd_mutation_timeout

\* startWatching_serviceVersion with the token of the session before kept.
startWatching_keepVersion(old) == old

\* The serviceVersion a new session starts with.
startWatching_serviceVersion(old) == 0

\* len(*resourceVersion) == 0
tokenEmpty(rv) == rv = 0

\* log.Fatalf in function fn: the process exits, nothing runs after it.
Fatalf(fn) == exit' = fn

\* The process has exited.
dead == exit # ""

\* ----------------------------------------------------------- the registry

\* The Items of List(): the services that exist, in listing order.
ListItems ==
  LET present == SelectSeq(ListOrder, LAMBDA id : id \in DOMAIN registry)
  IN  [i \in 1..Len(present) |-> registry[present[i]]]

\* FirstAfter with the watch replaying the changes from the first one on,
\* whatever version it was given.
FirstAfter_replay(rv) == 1

\* Watch(.., rv) streams the events after version rv: the index of the first.
FirstAfter(rv) ==
  Len(SelectSeq(regLog, LAMBDA e : e.Object.ResourceVersion <= rv)) + 1

RegistryChange(type, id, spec) ==
  LET svc == Service(id, spec, regVer + 1)
  IN  /\ ~dead
      /\ regVer < MaxVersion
      /\ regVer' = regVer + 1
      /\ regLog' = Append(regLog, [Type |-> type, Object |-> svc])
      /\ registry' = IF type = Deleted
                       THEN [k \in DOMAIN registry \ {id} |-> registry[k]]
                       ELSE [k \in DOMAIN registry \cup {id} |->
                               IF k = id THEN svc ELSE registry[k]]
      /\ UNCHANGED <<fdVars, prodVars, mutVars, consVars, exit, histVars>>

\* A service is created.
RegistryAdd ==
  \E id \in Ids \ DOMAIN registry : \E spec \in SpecsOf(id) :
    RegistryChange(Added, id, spec)

\* A service is updated: its address and port change.
RegistryModify ==
  \E id \in DOMAIN registry : \E spec \in SpecsOf(id) :
    /\ spec # [PortalIP |-> registry[id].PortalIP, Port |-> registry[id].Port]
    /\ RegistryChange(Modified, id, spec)

\* A service is deleted: the event carries its last state.
RegistryDelete ==
  \E id \in DOMAIN registry :
    RegistryChange(Deleted, id,
                   [PortalIP |-> registry[id].PortalIP, Port |-> registry[id].Port])

\* ------------------------------------------- the producer: watchLoop

\* watchLoopReturn without the deferred watcher.Stop().
watchLoopReturn_noStop ==
  /\ ppc' = "returned"
  /\ watcherOpen' = watcherOpen
  /\ closes' = closes + 1
  /\ sending' = NoUpdate

\* watchLoopReturn without the deferred close(updates).
watchLoopReturn_noClose ==
  /\ ppc' = "returned"
  /\ watcherOpen' = FALSE
  /\ closes' = closes
  /\ sending' = NoUpdate

\* watchLoop returns: the deferred watcher.Stop() and close(updates) run.
watchLoopReturn ==
  /\ ppc' = "returned"
  /\ watcherOpen' = FALSE
  /\ closes' = closes + 1
  /\ sending' = NoUpdate

\* WatchLoopList without the send of the SetServices update: after List()
\* watchLoop goes straight to Watch().
WatchLoopList_noSync ==
  /\ exit = ""
  /\ ppc = "start"
  /\ IF resourceVersion = 0
       THEN /\ listCalls' = listCalls + 1
            /\ \/ /\ watchLoopReturn
                  /\ UNCHANGED <<resourceVersion, listedVersion, observed>>
               \/ /\ resourceVersion' = regVer
                  /\ listedVersion' = regVer
                  /\ ppc' = "watch"
                  /\ UNCHANGED <<sending, observed, watcherOpen, closes>>
       ELSE /\ ppc' = "watch"
            /\ UNCHANGED <<resourceVersion, sending, watcherOpen, closes,
                           listCalls, listedVersion, observed>>
  /\ UNCHANGED <<fdVars, regVars, wpos, event, mutVars, consVars, exit,
                 watchCalls, watchArg, received, mutLog, lastApplied>>

\* The first step of watchLoop: with an empty token List() is called; it
\* fails (the session ends) or its version becomes the token and the
\* SetServices update is sent.  With a token held the step goes on to Watch.
WatchLoopList ==
  /\ ~dead
  /\ ppc = "start"
  /\ IF tokenEmpty(resourceVersion)
       THEN /\ listCalls' = listCalls + 1
            /\ \/ /\ watchLoopReturn
                  /\ UNCHANGED <<resourceVersion, listedVersion, observed>>
               \/ /\ resourceVersion' = regVer
                  /\ listedVersion' = regVer
                  /\ sending' = serviceUpdate(SetServices, ListItems)
                  /\ observed' = Append(observed, [Type |-> "LIST", Items |-> ListItems])
                  /\ ppc' = "sendSet"
                  /\ UNCHANGED <<watcherOpen, closes>>
       ELSE /\ ppc' = "watch"
            /\ UNCHANGED <<resourceVersion, sending, watcherOpen, closes,
                           listCalls, listedVersion, observed>>
  /\ UNCHANGED <<fdVars, regVars, wpos, event, mutVars, consVars, exit,
                 watchCalls, watchArg, received, mutLog, lastApplied>>

\* svcWatcher.Watch(.., *resourceVersion): it fails (the session ends) or
\* the watcher is established.
WatchLoopWatch ==
  /\ ~dead
  /\ ppc = "watch"
  /\ watchCalls' = watchCalls + 1
  /\ watchArg' = resourceVersion
  /\ \/ /\ watchLoopReturn
        /\ UNCHANGED wpos
     \/ /\ watcherOpen' = TRUE
        /\ wpos' = FirstAfter(resourceVersion)
        /\ ppc' = "recv"
        /\ UNCHANGED <<sending, closes>>
  /\ UNCHANGED <<fdVars, regVars, resourceVersion, event, mutVars, consVars, exit,
                 listCalls, listedVersion, observed, received, mutLog, lastApplied>>

\* sendUpdate with the service put into the update twice.
sendUpdate_twice(e, service) ==
  /\ resourceVersion' = service.ResourceVersion
  /\ IF e.Type \in {Added, Modified, Deleted}
       THEN /\ sending' = serviceUpdate(IF e.Type = Deleted THEN RemoveService
                                                             ELSE AddService,
                                        <<service, service>>)
            /\ ppc' = "sendUpd"
            /\ observed' = Append(observed, e)
            /\ UNCHANGED exit
       ELSE /\ exit' = "sendUpdate"
            /\ UNCHANGED <<sending, ppc, observed>>
  /\ UNCHANGED <<watcherOpen, closes>>

\* sendUpdate with a send that does not wait for the receiver: watchLoop
\* goes on to the next event.
sendUpdate_noBlock(e, service) ==
  /\ resourceVersion' = service.ResourceVersion
  /\ IF e.Type \in {Added, Modified, Deleted}
       THEN /\ sending' = serviceUpdate(IF e.Type = Deleted THEN RemoveService
                                                             ELSE AddService, <<service>>)
            /\ ppc' = "recv"
            /\ observed' = Append(observed, e)
            /\ UNCHANGED exit
       ELSE /\ exit' = "sendUpdate"
            /\ UNCHANGED <<sending, ppc, observed>>
  /\ UNCHANGED <<watcherOpen, closes>>

\* sendUpdate: the token takes the service's version, then the update is
\* sent, or the event type is unknown and the process exits.
sendUpdate(e, service) ==
  /\ resourceVersion' = service.ResourceVersion
  /\ IF e.Type \in {Added, Modified}
       THEN /\ sending' = serviceUpdate(AddService, <<service>>)
            /\ ppc' = "sendUpd"
            /\ observed' = Append(observed, e)
            /\ UNCHANGED exit
       ELSE IF e.Type = Deleted
         THEN /\ sending' = serviceUpdate(RemoveService, <<service>>)
              /\ ppc' = "sendUpd"
              /\ observed' = Append(observed, e)
              /\ UNCHANGED exit
         ELSE /\ Fatalf("sendUpdate")
              /\ UNCHANGED <<sending, ppc, observed>>
  /\ UNCHANGED <<watcherOpen, closes>>

\* watchLoopEvent with the error event that carries a Status ending the
\* process like any other error event.
watchLoopEvent_statusFatal(e) ==
  /\ event' = e
  /\ IF e.Type = Error
       THEN /\ exit' = "watchLoop"
            /\ UNCHANGED <<ppc, resourceVersion, sending, watcherOpen, closes, observed>>
       ELSE IF e.Object.kind = "Service"
              THEN sendUpdate(e, e.Object)
              ELSE UNCHANGED <<ppc, resourceVersion, sending, watcherOpen, closes,
                               observed, exit>>

\* The body of the select in watchLoop for one event of the result channel.
watchLoopEvent(e) ==
  /\ event' = e
  /\ IF e.Type = Error
       THEN IF e.Object.kind = "Status"
              THEN /\ watchLoopReturn
                   /\ UNCHANGED <<resourceVersion, observed, exit>>
              ELSE /\ Fatalf("watchLoop")
                   /\ UNCHANGED <<ppc, resourceVersion, sending, watcherOpen, closes,
                                  observed>>
       ELSE IF e.Object.kind = "Service"
              THEN sendUpdate(e, e.Object)
              ELSE UNCHANGED <<ppc, resourceVersion, sending, watcherOpen, closes,
                               observed, exit>>

\* The frame of a step of the watch loop.
watchLoopFrame ==
  UNCHANGED <<fdVars, regVars, mutVars, consVars,
              listCalls, watchCalls, listedVersion, watchArg, received, mutLog,
              lastApplied>>

\* The watch delivers the next change event of the registry.
WatchLoopChange ==
  /\ ~dead
  /\ ppc = "recv"
  /\ wpos <= Len(regLog)
  /\ wpos' = wpos + 1
  /\ watchLoopEvent(regLog[wpos])
  /\ watchLoopFrame

\* What else the result channel can deliver: an error event with a Status or
\* with another object, an event whose object is no Service, under a type of
\* the four and under another one, and the next change under a type that is
\* none of the four.
OddEvents ==
  { Event(Error, StatusObject),
    Event(Error, OtherObject),
    Event(Added, OtherObject),
    Event("BOOKMARK", OtherObject) }
  \cup { Event("BOOKMARK", regLog[i].Object) :
           i \in {j \in 1..Len(regLog) : j = wpos} }

\* The watch delivers such an event.
WatchLoopOdd ==
  /\ ~dead
  /\ ppc = "recv"
  /\ \E e \in OddEvents : watchLoopEvent(e)
  /\ UNCHANGED wpos
  /\ watchLoopFrame

\* The result channel is closed: watchLoop returns.
WatchLoopClosed ==
  /\ ~dead
  /\ ppc = "recv"
  /\ watchLoopReturn
  /\ event' = NoEvent
  /\ UNCHANGED <<wpos, resourceVersion, observed, exit>>
  /\ watchLoopFrame

\* ------------------------------- the consumer: main, watchOnce

\* StartSession with main calling watchOnce once instead of in a loop.
StartSession_once ==
  /\ exit = ""
  /\ ppc = "none"
  /\ cpc = "main"
  /\ cpc' = "range"
  /\ ppc' = "start"
  /\ resourceVersion' = 0
  /\ closes' = 0
  /\ sending' = NoUpdate
  /\ listCalls' = 0
  /\ watchCalls' = 0
  /\ observed' = <<>>
  /\ received' = <<>>
  /\ mutLog' = <<>>
  /\ listedVersion' = 0
  /\ watchArg' = 0
  /\ wpos' = 1
  /\ event' = NoEvent
  /\ UNCHANGED <<fdVars, regVars, watcherOpen, mutVars, ev, idx, store, exit, lastApplied>>

\* main calls watchOnce: a new channel, and startWatching starts watchLoop
\* on it with a serviceVersion of its own.
StartSession ==
  /\ ~dead
  /\ cpc = "main"
  /\ cpc' = "range"
  /\ ppc' = "start"
  /\ resourceVersion' = startWatching_serviceVersion(resourceVersion)
  /\ closes' = 0
  /\ sending' = NoUpdate
  /\ listCalls' = 0
  /\ watchCalls' = 0
  /\ observed' = <<>>
  /\ received' = <<>>
  /\ mutLog' = <<>>
  /\ listedVersion' = 0
  /\ watchArg' = 0
  /\ wpos' = 1
  /\ event' = NoEvent
  /\ UNCHANGED <<fdVars, regVars, watcherOpen, mutVars, ev, idx, store, exit, lastApplied>>

\* The unbuffered channel: a send of watchLoop and the receive of the range
\* loop complete together.
ChanTransfer ==
  /\ ~dead
  /\ cpc = "range"
  /\ ppc \in {"sendSet", "sendUpd"}
  /\ closes = 0
  /\ ev' = sending
  /\ idx' = 1
  /\ cpc' = "loop"
  /\ received' = Append(received, sending)
  /\ sending' = NoUpdate
  /\ ppc' = IF ppc = "sendSet" THEN "watch" ELSE "recv"
  /\ UNCHANGED <<fdVars, regVars, resourceVersion, wpos, watcherOpen, closes, event, mutVars,
                 store, exit, listCalls, watchCalls, listedVersion, watchArg,
                 observed, mutLog, lastApplied>>

\* RangeClosed with watchOnce returning as soon as the channel is closed,
\* the update in hand not finished.
RangeClosed_early ==
  /\ exit = ""
  /\ cpc \in {"range", "loop", "mutSleep"}
  /\ closes > 0
  /\ cpc' = "main"
  /\ UNCHANGED <<fdVars, regVars, prodVars, mutVars, ev, idx, store, exit, histVars>>

\* The range loop finds the channel closed: watchOnce returns to main.
RangeClosed ==
  /\ ~dead
  /\ cpc = "range"
  /\ closes > 0
  /\ cpc' = "main"
  /\ ev' = NoUpdate
  /\ UNCHANGED <<fdVars, regVars, prodVars, mutVars, idx, store, exit, histVars>>

\* curService with the loop running from the last service to the first.
curService_backwards == ev.Services[Len(ev.Services) + 1 - idx]

\* The service the loop over ev.Services stands at, and its record name.
curService == ev.Services[idx]

curName == buildNameString(curService.Name, curService.Namespace, domain)

\* The loop over ev.Services: past the last service the event is done; else
\* mutateEtcdOrDie is called for the service at i and arms its timer.
ServicesLoop ==
  /\ ~dead
  /\ cpc = "loop"
  /\ IF idx <= Len(ev.Services) /\ ev.Op \in {SetServices, AddService, RemoveService}
       THEN /\ cpc' = "mutSelect"
            /\ elapsed' = 0
            /\ attempts' = 0
            /\ failures' = 0
            /\ storeCalls' = 0
            /\ applied' = 0
            /\ lastErr' = ""
            /\ mutLog' = Append(mutLog, [kind |-> mutatorOf(ev.Op), record |-> curName,
                                         service |-> curService])
            /\ UNCHANGED <<ev, idx>>
       ELSE /\ cpc' = "range"
            /\ ev' = NoUpdate
            /\ idx' = 1
            /\ UNCHANGED <<mutVars, mutLog>>
  /\ UNCHANGED <<fdVars, regVars, prodVars, store, exit, listCalls, watchCalls,
                 listedVersion, watchArg, observed, received, lastApplied>>

\* MutSelect with the fired timer making the call return instead of ending
\* the process.
MutSelect_giveUp ==
  /\ exit = ""
  /\ cpc = "mutSelect"
  /\ cpc' = IF elapsed >= etcd_mutation_timeout THEN "mutReturn" ELSE "mutCall"
  /\ UNCHANGED <<fdVars, regVars, prodVars, mutVars, ev, idx, store, exit, histVars>>

\* The select of mutateEtcdOrDie: the fired timer ends the process, else the
\* default case starts an attempt.
MutSelect ==
  /\ ~dead
  /\ cpc = "mutSelect"
  /\ IF timeoutFired(elapsed)
       THEN /\ Fatalf("mutateEtcdOrDie")
            /\ UNCHANGED cpc
       ELSE /\ cpc' = "mutCall"
            /\ UNCHANGED exit
  /\ UNCHANGED <<fdVars, regVars, prodVars, mutVars, ev, idx, store, histVars>>

\* afterAttempt with the deadline tested after the attempt as well: a success
\* that comes after the deadline counts as a failure.
afterAttempt_deadline(err) ==
  IF err # "" \/ elapsed >= etcd_mutation_timeout THEN "mutSleep" ELSE "mutReturn"

\* afterAttempt with the error dropped: the call returns after any attempt.
afterAttempt_dropError(err) == "mutReturn"

\* What follows an invocation of mutator() in mutateEtcdOrDie: the sleep
\* and another round on an error, the return on nil.
afterAttempt(err) == IF err # "" THEN "mutSleep" ELSE "mutReturn"

\* One invocation of mutator().
MutAttempt ==
  /\ ~dead
  /\ cpc = "mutCall"
  /\ \E out \in mutator(mutatorOf(ev.Op), curName, curService, store) :
       /\ attempts' = attempts + 1
       /\ failures' = IF out.err # "" THEN failures + 1 ELSE failures
       /\ lastErr' = out.err
       /\ storeCalls' = storeCalls + out.calls
       /\ applied' = applied + out.applied
       /\ store' = out.store
       /\ cpc' = afterAttempt(out.err)
  /\ UNCHANGED <<fdVars, regVars, prodVars, elapsed, ev, idx, exit, histVars>>

\* mutateEtcdOrDie returns and the loop goes to the next service.
MutReturn ==
  /\ ~dead
  /\ cpc = "mutReturn"
  /\ cpc' = "loop"
  /\ idx' = idx + 1
  /\ elapsed' = 0
  /\ attempts' = 0
  /\ failures' = 0
  /\ storeCalls' = 0
  /\ applied' = 0
  /\ lastErr' = ""
  /\ LET id == <<curService.Name, curService.Namespace>>
     IN  lastApplied' = [k \in DOMAIN lastApplied \cup {id} |->
                           IF k = id THEN ev.Op ELSE lastApplied[k]]
  /\ UNCHANGED <<fdVars, regVars, prodVars, ev, store, exit, listCalls, watchCalls,
                 listedVersion, watchArg, observed, received, mutLog>>

\* time.Sleep(delay)
MutSleep ==
  /\ ~dead
  /\ cpc = "mutSleep"
  /\ elapsed' = Min(elapsed + delay, etcd_mutation_timeout)
  /\ cpc' = "mutSelect"
  /\ UNCHANGED <<fdVars, regVars, prodVars, attempts, failures, storeCalls, applied,
                 lastErr, ev, idx, store, exit, histVars>>

\* Time passes while an attempt runs.
Tick ==
  /\ ~dead
  /\ cpc = "mutCall"
  /\ elapsed < etcd_mutation_timeout
  /\ elapsed' = elapsed + 1
  /\ UNCHANGED <<fdVars, regVars, prodVars, attempts, failures, storeCalls, applied,
                 lastErr, consVars, exit, histVars>>

\* ------------------------------------------------------ the specification

\* kube2sky after start-up: main is about to call watchOnce.
KubeInit ==
  /\ regVer = 1
  /\ registry = <<>>
  /\ regLog = <<>>
  /\ ppc = "none"
  /\ resourceVersion = 0
  /\ sending = NoUpdate
  /\ wpos = 1
  /\ watcherOpen = FALSE
  /\ closes = 0
  /\ event = NoEvent
  /\ cpc = "main"
  /\ ev = NoUpdate
  /\ idx = 1
  /\ elapsed = 0
  /\ attempts = 0
  /\ failures = 0
  /\ storeCalls = 0
  /\ applied = 0
  /\ store = <<>>
  /\ exit = ""
  /\ lastErr = ""
  /\ lastApplied = <<>>
  /\ listCalls = 0
  /\ watchCalls = 0
  /\ listedVersion = 0
  /\ watchArg = 0
  /\ observed = <<>>
  /\ received = <<>>
  /\ mutLog = <<>>

\* kube2sky makes no call of fd_move.
FdNone ==
  /\ fpc = "none"
  /\ to = 0
  /\ from = 0
  /\ fdTable = <<>>
  /\ fd_move_err = ""
  /\ ret = ""
  /\ dupCalls = 0
  /\ dupErr = ""
  /\ closeCalls = 0
  /\ closeErr = ""
  /\ fd_close_i = 0

Init == KubeInit /\ FdNone

Next ==
  \/ RegistryAdd
  \/ RegistryModify
  \/ RegistryDelete
  \/ StartSession
  \/ WatchLoopList
  \/ WatchLoopWatch
  \/ WatchLoopChange
  \/ WatchLoopOdd
  \/ WatchLoopClosed
  \/ ChanTransfer
  \/ RangeClosed
  \/ ServicesLoop
  \/ MutSelect
  \/ MutAttempt
  \/ MutReturn
  \/ MutSleep
  \/ Tick

Spec == Init /\ [][Next]_vars

\* A step of the consumer inside mutateEtcdOrDie.
MutatorStep == MutSelect \/ MutAttempt \/ MutSleep \/ MutReturn

\* The consumer is fair: the goroutine of main is scheduled and the calls of
\* the etcd client and time.Sleep return.
LiveSpec == Spec /\ WF_vars(MutatorStep)

\* ------------------------------------------------------------ properties

\* The consumer is inside mutateEtcdOrDie and the call has not returned.
InMutate == cpc \in {"mutSelect", "mutCall", "mutSleep"}

\* The event being handled upserts (SetServices, AddService).
IsUpsert == ev.Op \in {SetServices, AddService}

\* A service without a resolvable address.
Headless(service) == service.PortalIP \in {"None", ""}

\* C1 as stated: whenever mutateEtcdOrDie returns, the op was invoked once
\* more than it failed and exactly one store mutation was applied.
C1_ExactlyOneMutation ==
  cpc = "mutReturn" => (attempts = failures + 1 /\ applied = 1)

\* C1, amended: no silent drop in the Mutator.  While a call runs every
\* attempt so far has failed and nothing was applied; when the call returns
\* the last attempt succeeded (N failures, N+1 invocations) and it applied
\* exactly one store mutation, or none when the op is the upsert of a service
\* without a resolvable address.
C1_NoSilentDrop ==
  /\ InMutate => (attempts = failures /\ applied = 0)
  /\ cpc = "mutReturn" =>
       /\ attempts = failures + 1
       /\ lastErr = ""
       /\ applied = IF IsUpsert /\ Headless(curService) THEN 0 ELSE 1

\* A call returns after one failure and one success.
C1_Witness ==
  cpc = "mutReturn" /\ failures >= 1 /\ attempts = failures + 1 /\ applied = 1

\* C2: a call of mutateEtcdOrDie whose op fails on every attempt ends the
\* process and never returns.  Every call leads to a successful attempt or
\* to the exit of the process, and a call returns only with a successful
\* attempt.
C2_FailingMutationIsFatal ==
  /\ (InMutate ~> (dead \/ attempts > failures))
  /\ [](cpc = "mutReturn" => attempts > failures)
  /\ [](exit = "mutateEtcdOrDie" => timeoutFired(elapsed))

\* The Mutator ended the process after attempts that all failed.
C2_Witness ==
  exit = "mutateEtcdOrDie" /\ attempts >= 1 /\ attempts = failures

\* C3: a session closes its channel exactly once when watchLoop returns, and
\* nothing is sent on a closed channel.
C3_ClosedExactlyOnce ==
  /\ closes \in {0, 1}
  /\ (ppc = "returned") = (closes = 1)
  /\ closes = 1 => sending = NoUpdate
  /\ cpc = "main" /\ ppc # "none" => closes = 1

\* A session that delivered updates has ended by closing its channel.
C3_Witness ==
  ppc = "returned" /\ closes = 1 /\ watchCalls = 1 /\ Len(received) >= 2

\* C4: a session starts with the empty token, so it calls List() before
\* Watch(), and Watch() gets the version of that List().
C4_FreshListEachSession ==
  /\ ppc = "start" => resourceVersion = 0
  /\ ppc = "watch" => listCalls = 1 /\ resourceVersion = listedVersion
  /\ watchCalls > 0 => listCalls = 1 /\ watchArg = listedVersion /\ watchArg # 0

\* A later session (the store holds a record of an earlier one, and this
\* session has begun no mutation) has listed and watches.
C4_Witness ==
  /\ store # <<>>
  /\ mutLog = <<>>
  /\ watchCalls = 1
  /\ ppc = "recv"
  /\ watchArg > 1

\* The update a registry observation stands for.
UpdateOf(o) ==
  IF o.Type = "LIST" THEN [Op |-> SetServices, Services |-> o.Items]
  ELSE IF o.Type = Deleted THEN [Op |-> RemoveService, Services |-> <<o.Object>>]
  ELSE [Op |-> AddService, Services |-> <<o.Object>>]

\* The mutations an update asks for, in the order of its services.
CallsOf(u) ==
  [i \in 1..Len(u.Services) |->
     [kind |-> IF u.Op = RemoveService THEN "removeDNS" ELSE "addDNS",
      service |-> u.Services[i]]]

RECURSIVE CallsOfAll(_)
CallsOfAll(us) ==
  IF us = <<>> THEN <<>> ELSE CallsOfAll(SubSeq(us, 1, Len(us) - 1)) \o CallsOf(us[Len(us)])

\* The mutations due so far: every call of the updates handled, and of the
\* update in hand the calls up to the loop index.
CallsDue ==
  IF cpc \in {"loop", "mutSelect", "mutCall", "mutSleep", "mutReturn"}
    THEN CallsOfAll(SubSeq(received, 1, Len(received) - 1))
         \o SubSeq(CallsOf(ev), 1, IF cpc = "loop" THEN idx - 1 ELSE idx)
    ELSE CallsOfAll(received)

\* C5: within a session the consumer receives the updates in the order the
\* producer observed the registry events, none lost, doubled or swapped, and
\* begins the mutations in that order.
C5_InOrder ==
  /\ Len(observed) - Len(received) \in {0, 1}
  /\ \A i \in 1..Len(received) : received[i] = UpdateOf(observed[i])
  /\ ppc \in {"sendSet", "sendUpd"} =>
       /\ Len(observed) = Len(received) + 1
       /\ sending = UpdateOf(observed[Len(observed)])
  /\ cpc \in {"loop", "mutSelect", "mutCall", "mutSleep", "mutReturn"} =>
       ev = received[Len(received)]
  /\ [i \in 1..Len(mutLog) |-> [kind |-> mutLog[i].kind, service |-> mutLog[i].service]]
       = CallsDue

\* The list and two later events about one entity were received, and the
\* mutation of the second event is done.
C5_Witness ==
  /\ Len(received) = 3
  /\ received[2].Services[1].Name = received[3].Services[1].Name
  /\ Len(mutLog) = 2
  /\ cpc = "mutReturn"

\* The record name of a service: "<name>.<namespace>.kubernetes.local."
KeyOf(service) ==
  service.Name \o <<".">> \o service.Namespace \o <<".", "kubernetes", ".", "local", ".">>

\* The record of a service.
RecordOf(service) ==
  [Host |-> service.PortalIP, Port |-> service.Port,
   Priority |-> 10, Weight |-> 10, Ttl |-> 30]

\* The event in hand has been applied to the last of its services.
EventApplied == cpc = "loop" /\ idx > Len(ev.Services)

\* C6 as stated: Remove is idempotent.  The delete of a record the store
\* does not hold succeeds: the Mutator never ends the process over a Remove
\* whose key is absent and whose last attempt the store answered.
C6_RemoveAbsentSucceeds ==
  exit = "mutateEtcdOrDie" /\ ev.Op = RemoveService /\ KeyOf(curService) \notin DOMAIN store
    => lastErr = "unavailable"

\* C7 as stated: once a FullSync is applied the store holds exactly the
\* records of the listed services.
C7_FullSyncReplacesAll ==
  EventApplied /\ ev.Op = SetServices =>
    /\ DOMAIN store = {KeyOf(ev.Services[i]) :
                         i \in {j \in 1..Len(ev.Services) : ~Headless(ev.Services[j])}}
    /\ \A i \in 1..Len(ev.Services) :
         ~Headless(ev.Services[i]) =>
           store[KeyOf(ev.Services[i])] = RecordOf(ev.Services[i])

\* The keys the store holds for a service.
KeysFor(service) ==
  {k \in DOMAIN store :
     /\ Len(k) >= 4
     /\ SubSeq(k, 1, 4) = service.Name \o <<".">> \o service.Namespace \o <<".">>}

\* The store holds for the service the one record the claim describes.
HoldsRecord(service) ==
  /\ KeysFor(service) = {KeyOf(service)}
  /\ store[KeyOf(service)] = RecordOf(service)

\* C8: once an Upsert or a FullSync is applied, each of its services with a
\* resolvable address has exactly one record, at
\* "<name>.<namespace>.<domain>.", holding its address and port and
\* priority 10, weight 10, ttl 30.
C8_UpsertStoresRecord ==
  /\ cpc = "mutReturn" /\ IsUpsert /\ ~Headless(curService) => HoldsRecord(curService)
  /\ EventApplied /\ IsUpsert =>
       \A i \in 1..Len(ev.Services) :
         ~Headless(ev.Services[i]) => HoldsRecord(ev.Services[i])

\* An Upsert that changes the address of a stored record has been applied.
C8_Witness ==
  /\ EventApplied
  /\ ev.Op = AddService
  /\ ev.Services[1].PortalIP = "10.0.0.6"
  /\ Len(mutLog) >= 2
  /\ mutLog[1].service.PortalIP = "10.0.0.5"
  /\ mutLog[1].service.Name = ev.Services[1].Name

\* C9: the attempt that upserts a service without a resolvable address calls
\* the store not at all, leaves it as it is and lets the call return.
C9_HeadlessUpsertIsNoOp ==
  [][ (cpc = "mutCall" /\ IsUpsert /\ Headless(curService) /\ attempts' # attempts)
        => (store' = store /\ storeCalls' = 0 /\ applied' = 0 /\ cpc' = "mutReturn") ]_vars

\* The upsert of a headless service returned with its earlier record in place.
C9_Witness ==
  /\ cpc = "mutReturn"
  /\ IsUpsert
  /\ Headless(curService)
  /\ KeyOf(curService) \in DOMAIN store
  /\ storeCalls = 0

\* C10: while a Remove is the last event applied for an entity, the store
\* holds no record under its key.
C10_RemovedStaysRemoved ==
  /\ cpc = "mutReturn" /\ ev.Op = RemoveService => KeyOf(curService) \notin DOMAIN store
  /\ \A id \in DOMAIN lastApplied :
       /\ lastApplied[id] = RemoveService
       /\ ~(cpc = "mutReturn" /\ <<curService.Name, curService.Namespace>> = id)
       => KeyOf([Name |-> id[1], Namespace |-> id[2]]) \notin DOMAIN store

\* In one session an Upsert of an entity and then its Remove were applied.
C10_Witness ==
  /\ Len(mutLog) >= 2
  /\ mutLog[1].kind = "addDNS"
  /\ ~Headless(mutLog[1].service)
  /\ mutLog[2].kind = "removeDNS"
  /\ mutLog[2].service.Name = mutLog[1].service.Name
  /\ cpc = "range"
  /\ <<mutLog[1].service.Name, mutLog[1].service.Namespace>> \in DOMAIN lastApplied
  /\ lastApplied[<<mutLog[1].service.Name, mutLog[1].service.Namespace>>] = RemoveService

\* The four kwatch event types the code names.
KnownTypes == {Added, Modified, Deleted, Error}

\* C11 as stated: an error event without a Status, and any event whose type
\* is none of the four, ends the process: once watchLoop has received such an
\* event the process has exited.
C11_OddEventIsFatal ==
  /\ event.Type = Error /\ event.Object.kind # "Status" => dead
  /\ event # NoEvent /\ event.Type \notin KnownTypes => dead

\* A step of the consumer other than the receive from the channel.
ConsumerStep == StartSession \/ RangeClosed \/ ServicesLoop \/ MutatorStep

\* The goroutine of main is scheduled, the calls of the etcd client and
\* time.Sleep return, and a started watchLoop gets to its first statement.
LoopSpec == Spec /\ WF_vars(ConsumerStep) /\ WF_vars(WatchLoopList)

\* C12: a failed List(), a failed Watch(), an error event with a Status and
\* the closing of the result channel end the session and nothing else.  Each
\* is followed by the return of watchLoop; that return leaves the process
\* running, sends and records no update and closes the channel; and a
\* returned session leads to a new one that starts with the empty token and
\* calls List(), unless the process exits.
C12_FailureEndsSessionOnly ==
  /\ [](listCalls = 1 /\ listedVersion = 0 => ppc = "returned" /\ received = <<>>)
  /\ [](watchCalls = 1 /\ ~watcherOpen => ppc = "returned")
  /\ [](event = Event(Error, StatusObject) => ppc = "returned" /\ exit # "watchLoop")
  /\ [][ppc # "returned" /\ ppc' = "returned" =>
          /\ exit' = ""
          /\ closes' = 1
          /\ sending' = NoUpdate
          /\ observed' = observed
          /\ received' = received]_vars
  /\ [](ppc = "start" => resourceVersion = 0 /\ listCalls = 0)
  /\ (ppc = "returned" ~> (dead \/ ppc = "start"))
  /\ (ppc = "start" ~> (dead \/ listCalls = 1))

\* An error event with a Status has ended a session that had delivered the
\* list and a change, while the consumer was still retrying a mutation.
C12_Witness ==
  /\ event = Event(Error, StatusObject)
  /\ ppc = "returned"
  /\ Len(received) = 2
  /\ cpc = "mutSleep"
  /\ ~dead

\* C13: within a session the token, once non-empty, only advances.  Every
\* step but the start of a new session leaves a non-empty token as it is or
\* sets it to a version that is not older.
C13_TokenOnlyAdvances ==
  [][ (resourceVersion # 0 /\ ~(cpc = "main" /\ cpc' = "range"))
        => resourceVersion' >= resourceVersion ]_vars

\* The token was set by List() and advanced by two later events.
C13_Witness ==
  /\ listedVersion = 1
  /\ Len(observed) = 3
  /\ resourceVersion = 3

\* The consumer holds an update whose handling is not finished.
Handling == cpc \in {"loop", "mutSelect", "mutCall", "mutSleep", "mutReturn"}

\* The updates of the session whose handling is finished.
Finished == Len(received) - (IF Handling THEN 1 ELSE 0)

\* C14: backpressure.  The producer is at most one update ahead of what the
\* consumer has received, and it is ahead exactly while it is blocked in the
\* send of that one update; so at most two updates are unfinished, the one
\* the consumer handles and the one in the blocked send, also while the
\* consumer retries in mutateEtcdOrDie.
C14_OneEventAhead ==
  /\ Len(observed) - Len(received) \in {0, 1}
  /\ (Len(observed) = Len(received) + 1) = (ppc \in {"sendSet", "sendUpd"})
  /\ (sending # NoUpdate) = (ppc \in {"sendSet", "sendUpd"})
  /\ Len(observed) - Finished \in {0, 1, 2}
  /\ ~Handling => ev = NoUpdate
  /\ InMutate /\ Len(observed) - Finished = 2 => ppc \in {"sendSet", "sendUpd"}

\* The consumer retries the mutation of the listed service while the
\* producer is blocked in the send of the next change.
C14_Witness ==
  /\ cpc = "mutSleep"
  /\ failures >= 1
  /\ ppc = "sendUpd"
  /\ Len(observed) = 2
  /\ Len(received) = 1

\* C15: the loop of main runs forever.  With the range loop ended, the next
\* call of watchOnce is enabled whatever else the state is, and it is taken:
\* a closed channel leads to a new session.  The consumer always has a step
\* or waits in the receive, and the process exits only through the log.Fatalf
\* of mutateEtcdOrDie, watchLoop or sendUpdate.
C15_LoopRunsForever ==
  /\ [](cpc = "main" /\ ~dead => ENABLED StartSession)
  /\ [](~dead /\ cpc # "range" => ENABLED ConsumerStep)
  /\ [](exit \in {"", "mutateEtcdOrDie", "watchLoop", "sendUpdate"})
  /\ [](exit = "mutateEtcdOrDie" => cpc = "mutSelect")
  /\ [](exit \in {"watchLoop", "sendUpdate"} => ppc = "recv")
  /\ (closes = 1 ~> (dead \/ closes = 0))
  /\ (cpc = "main" ~> (dead \/ cpc = "range"))

\* A session has been started after an earlier one had applied a mutation
\* and ended.
C15_Witness ==
  /\ cpc = "range"
  /\ ppc = "start"
  /\ lastApplied # <<>>
  /\ ~dead

\* A watchLoop goroutine is running.
ProducerActive == ppc \in {"start", "sendSet", "watch", "recv", "sendUpd"}

C17_ListSyncThenWatch ==
  /\ listCalls \in {0, 1}
  /\ watchCalls \in {0, 1}
  /\ ppc = "sendSet" =>
       /\ watchCalls = 0
       /\ resourceVersion = listedVersion
       /\ listedVersion # 0
       /\ sending.Op = SetServices
       /\ Len(observed) = 1
       /\ received = <<>>
  /\ watchCalls = 1 =>
       /\ listCalls = 1
       /\ listedVersion # 0
       /\ watchArg = listedVersion
       /\ Len(received) >= 1
       /\ received[1] = [Op |-> SetServices, Services |-> observed[1].Items]
       /\ \A i \in 1..Len(received[1].Services) :
            received[1].Services[i].ResourceVersion <= listedVersion
  /\ \A i \in 1..Len(observed) : (observed[i].Type = "LIST") = (i = 1)
  /\ \A i \in 1..Len(received) : (received[i].Op = SetServices) = (i = 1)
  /\ sending.Op \in {AddService, RemoveService} => Len(received) >= 1 /\ watchCalls = 1

\* The session listed a service, the consumer received the list, Watch() was
\* called and the first change after the listing waits to be sent.
C17_Witness ==
  /\ watchCalls = 1
  /\ ppc = "sendUpd"
  /\ Len(received) = 1
  /\ Len(received[1].Services) = 1
  /\ watchArg = 2

\* The update number i of the session: received, or waiting in the send.
UpdateNo(i) == IF i <= Len(received) THEN received[i] ELSE sending

\* The changes of the registry that the listing of the session includes.
ChangesListed ==
  Cardinality({i \in 1..Len(regLog) : regLog[i].Object.ResourceVersion <= listedVersion})

\* C18: one change, one update, one entity, at most one mutation.  The
\* changes the open watch has delivered are, one for one and in order, the
\* updates produced after the list update; each carries exactly the service
\* of its change.  A call of mutateEtcdOrDie applies at most one store
\* mutation.  The calls for the services of an update are begun one at a
\* time in the order of the update's Services, call i only when the calls
\* before it have returned, and the listing is in listing order.
C18_OneEntityOneMutation ==
  /\ \A i \in 2..Len(observed) :
       /\ observed[i] = regLog[ChangesListed + i - 1]
       /\ UpdateNo(i).Services = <<observed[i].Object>>
       /\ UpdateNo(i).Op = IF observed[i].Type = Deleted THEN RemoveService ELSE AddService
  /\ ppc \in {"recv", "sendUpd"} => Len(observed) - 1 = wpos - 1 - ChangesListed
  /\ applied \in {0, 1}
  /\ storeCalls >= applied
  /\ Handling =>
       /\ ev.Op \in {AddService, RemoveService} => Len(ev.Services) = 1
       /\ idx \in 1..(Len(ev.Services) + 1)
       /\ cpc # "loop" => idx <= Len(ev.Services)
       /\ LET begun == IF cpc = "loop" THEN idx - 1 ELSE idx
              first == Len(mutLog) - begun
          IN  /\ first >= 0
              /\ \A i \in 1..begun : mutLog[first + i].service = ev.Services[i]
  /\ \A k \in 1..Len(observed) :
       observed[k].Type = "LIST" =>
         \A i, j \in 1..Len(observed[k].Items) :
           i < j => \E a, b \in 1..Len(ListOrder) :
                      /\ a < b
                      /\ ListOrder[a] = <<observed[k].Items[i].Name, observed[k].Items[i].Namespace>>
                      /\ ListOrder[b] = <<observed[k].Items[j].Name, observed[k].Items[j].Namespace>>

\* The list update carries two services; the mutation of the first is done
\* and the call for the second has applied its one mutation.
C18_Witness ==
  /\ ev.Op = SetServices
  /\ Len(ev.Services) = 2
  /\ idx = 2
  /\ cpc = "mutReturn"
  /\ applied = 1
  /\ Len(mutLog) = 2

C20_SessionsSequential ==
  /\ ppc \in {"none", "start"} =>
       /\ ~Handling
       /\ ev = NoUpdate
       /\ received = <<>>
       /\ mutLog = <<>>
       /\ listCalls = 0
  /\ cpc = "main" => ev = NoUpdate
  /\ Handling =>
       /\ listCalls = 1
       /\ Len(received) >= 1
       /\ received[1].Op = SetServices
       /\ ev = received[Len(received)]
  /\ \A i \in 1..Len(mutLog) :
       \E j \in 1..Len(received) : \E k \in 1..Len(received[j].Services) :
         mutLog[i].service = received[j].Services[k]

\* The consumer applies the list update of a session while the last update
\* applied for some service is an AddService of an earlier session.
C20_Witness ==
  /\ cpc = "mutCall"
  /\ ev.Op = SetServices
  /\ Len(received) = 1
  /\ \E id \in DOMAIN lastApplied : lastApplied[id] = AddService

\* C21: the deadline of mutateEtcdOrDie.  Each call starts its own clock and
\* the clock never runs backwards during the call.  The deadline is tested
\* at the select only: an attempt is started only while the deadline has not
\* elapsed; at the select with the deadline elapsed the consumer takes no
\* step but the exit of the process; mutateEtcdOrDie ends the process at the
\* select only; and an attempt that succeeds makes the call return, the
\* process running on, whatever the clock shows by then.
C21_DeadlineBetweenAttempts ==
  [][ /\ (cpc = "loop" /\ cpc' = "mutSelect") => (elapsed' = 0 /\ attempts' = 0)
      /\ (InMutate /\ cpc' \in {"mutSelect", "mutCall", "mutSleep", "mutReturn"})
           => elapsed' >= elapsed
      /\ (cpc = "mutSelect" /\ cpc' = "mutCall") => elapsed < etcd_mutation_timeout
      /\ attempts' = attempts + 1 => (cpc = "mutCall" /\ attempts >= failures)
      /\ (cpc = "mutSelect" /\ elapsed >= etcd_mutation_timeout /\ exit = "")
           => \/ exit' = "mutateEtcdOrDie"
              \/ (cpc' = cpc /\ attempts' = attempts /\ store' = store)
      /\ (exit = "" /\ exit' = "mutateEtcdOrDie")
           => (cpc = "mutSelect" /\ elapsed >= etcd_mutation_timeout)
      /\ (cpc = "mutCall" /\ attempts' = attempts + 1 /\ failures' = failures)
           => (cpc' = "mutReturn" /\ exit' = "")
      /\ (cpc = "mutReturn" /\ cpc' # "mutReturn" /\ exit' = exit)
           => cpc' = "loop" ]_vars

\* An attempt that began before the deadline succeeded after it: the call
\* returns with the deadline elapsed, after an earlier attempt had failed.
C21_Witness ==
  /\ cpc = "mutReturn"
  /\ elapsed >= etcd_mutation_timeout
  /\ failures = 1
  /\ attempts = 2
  /\ applied = 1
  /\ ~dead

\* ------------------------------------------- package redirfd: fd_move

\* The descriptors run from 0 to MaxFd.
MaxFd == 2

\* The kernel interrupts only the first MaxEINTR system calls of one fd_move.
MaxEINTR == 2

Fds == 0..MaxFd

\* The open files a descriptor can refer to; NoFile for a closed descriptor.
Files == {"f", "g"}

NoFile == ""

\* The errno values: "" is 0.
EINTR == "EINTR"

EBADF == "EBADF"

EBUSY == "EBUSY"

EIO == "EIO"

\* dup2(oldfd, newfd): EBADF when oldfd is not open; else newfd comes to
\* refer to the file of oldfd, or the call is interrupted or fails and
\* changes nothing.
dup2(oldfd, newfd, table) ==
  IF table[oldfd] = NoFile
    THEN { [errno |-> EBADF, table |-> table] }
    ELSE { [errno |-> "", table |-> [table EXCEPT ![newfd] = table[oldfd]]],
           [errno |-> EINTR, table |-> table],
           [errno |-> EBUSY, table |-> table] }

\* close(fd): EBADF when fd is not open; else the descriptor is closed, with
\* or without an error; after EINTR it is closed on some systems and still
\* open on others.
close(fd, table) ==
  IF table[fd] = NoFile
    THEN { [errno |-> EBADF, table |-> table] }
    ELSE { [errno |-> "", table |-> [table EXCEPT ![fd] = NoFile]],
           [errno |-> EIO, table |-> [table EXCEPT ![fd] = NoFile]],
           [errno |-> EINTR, table |-> [table EXCEPT ![fd] = NoFile]],
           [errno |-> EINTR, table |-> table] }

\* One round of the loop of fd_close with e the error of syscall.Close and n
\* the counter i before it: a non-nil e returns nil at once; else i++, the
\* loop goes on if e is EINTR, and after it nil is returned for EBADF with
\* i > 1 and e otherwise.
fd_close_round(e, n) ==
  IF e # ""
    THEN [again |-> FALSE, i |-> n, result |-> ""]
    ELSE IF e = EINTR
      THEN [again |-> TRUE, i |-> n + 1, result |-> ""]
      ELSE [again |-> FALSE, i |-> n + 1,
            result |-> IF e = EBADF /\ n + 1 > 1 THEN "" ELSE e]

\* The test of fd_move after the dup2 loop that decides whether fd_close(from)
\* is called.
closesFrom(moveErr) == moveErr # ""

\* fd_move is entered: with to == from it returns at once.
FdMoveCall ==
  /\ fpc = "call"
  /\ IF to = from
       THEN /\ fpc' = "done"
            /\ ret' = fd_move_err
       ELSE /\ fpc' = "dup2"
            /\ UNCHANGED ret
  /\ UNCHANGED <<kubeVars, to, from, fdTable, fd_move_err, dupCalls, dupErr,
                 closeCalls, closeErr, fd_close_i>>

\* One round of the dup2 loop: on EINTR another round; else a non-zero errno
\* becomes err and the loop is left.
FdMoveDup2 ==
  /\ fpc = "dup2"
  /\ \E out \in dup2(from, to, fdTable) :
       /\ out.errno = EINTR => dupCalls + closeCalls < MaxEINTR
       /\ dupCalls' = dupCalls + 1
       /\ dupErr' = out.errno
       /\ fdTable' = out.table
       /\ IF out.errno # EINTR
            THEN /\ fd_move_err' = IF out.errno # "" THEN out.errno ELSE fd_move_err
                 /\ fpc' = "test"
            ELSE UNCHANGED <<fd_move_err, fpc>>
  /\ UNCHANGED <<kubeVars, to, from, ret, closeCalls, closeErr, fd_close_i>>

\* After the loop: fd_close(from) is called, or fd_move returns err.
FdMoveTest ==
  /\ fpc = "test"
  /\ IF closesFrom(fd_move_err)
       THEN /\ fpc' = "close"
            /\ fd_close_i' = 0
            /\ UNCHANGED ret
       ELSE /\ fpc' = "done"
            /\ ret' = fd_move_err
            /\ UNCHANGED fd_close_i
  /\ UNCHANGED <<kubeVars, to, from, fdTable, fd_move_err, dupCalls, dupErr,
                 closeCalls, closeErr>>

\* One round of the loop of fd_close(from); when fd_close returns, its result
\* becomes err and fd_move returns it.
FdClose ==
  /\ fpc = "close"
  /\ \E out \in close(from, fdTable) :
       LET round == fd_close_round(out.errno, fd_close_i)
       IN  /\ out.errno = EINTR => dupCalls + closeCalls < MaxEINTR
           /\ closeCalls' = closeCalls + 1
           /\ closeErr' = out.errno
           /\ fdTable' = out.table
           /\ fd_close_i' = round.i
           /\ IF round.again
                THEN UNCHANGED <<fpc, fd_move_err, ret>>
                ELSE /\ fd_move_err' = round.result
                     /\ ret' = round.result
                     /\ fpc' = "done"
  /\ UNCHANGED <<kubeVars, to, from, dupCalls, dupErr>>

\* A call fd_move(to, from) with any two descriptors and any descriptor table.
FdInit ==
  /\ KubeInit
  /\ fpc = "call"
  /\ to \in Fds
  /\ from \in Fds
  /\ fdTable \in [Fds -> Files \cup {NoFile}]
  /\ fd_move_err = ""
  /\ ret = ""
  /\ dupCalls = 0
  /\ dupErr = ""
  /\ closeCalls = 0
  /\ closeErr = ""
  /\ fd_close_i = 0

FdNext ==
  \/ FdMoveCall
  \/ FdMoveDup2
  \/ FdMoveTest
  \/ FdClose

FdSpec == FdInit /\ [][FdNext]_vars

\* What the reference fd_close returns after its last close: 0 when the close
\* succeeded or when it answered EBADF after an interrupted one, else the
\* error.
RefCloseResult ==
  IF closeErr = "" \/ (closeErr = EBADF /\ closeCalls > 1) THEN "" ELSE closeErr

\* C22 as stated: fd_move behaves as the routine quoted in its comment.  When
\* it has returned: with to == from it made no system call and returned nil;
\* else the last dup2 was not interrupted, and if that dup2 failed fd_move
\* returned its error and did not close from, and if it succeeded fd_move
\* closed from and returned the result of the close.
C22_FdMoveAsReference ==
  fpc = "done" =>
    /\ to = from => (ret = "" /\ dupCalls = 0 /\ closeCalls = 0)
    /\ to # from =>
         /\ dupCalls >= 1
         /\ dupErr # EINTR
         /\ dupErr # "" => (ret = dupErr /\ closeCalls = 0)
         /\ dupErr = "" => (closeCalls >= 1 /\ ret = RefCloseResult)

====
